---- MODULE Spec2Model ----
(***************************************************************************)
(* Real-time device-state synchronisation layer of the boneIO web console. *)
(*                                                                         *)
(* The module-scoped singleton of frontend/src/hooks/useWebSocket.ts       *)
(* (globalWs, globalMessageListeners, globalConnecting, globalPingInterval,*)
(* globalReconnectAttempts, activeConnections), the useWebSocket effect of *)
(* every mounted hook instance, the browser-side life cycle of every       *)
(* WebSocket object the manager created, the AuthProvider state that       *)
(* drives logout/login, the tables of AppContent (frontend/src/App.tsx)    *)
(* and the liveness prober (frontend/src/hooks/useApiAvailability.ts).     *)
(*                                                                         *)
(* The event loop is single threaded: every action below is one task       *)
(* (a React commit, a timer callback, a socket event handler) run to       *)
(* completion.                                                             *)
(***************************************************************************)
EXTENDS Integers, Sequences, FiniteSets, TLC

\* ---------------------------------------------------------------- bounds
MaxHooks == 1        \* hook instances (components calling useWebSocket)
MaxSockets == 2      \* WebSocket objects alive (not yet garbage) at once
MaxListeners == 2    \* distinct listener callbacks
MaxRetries == 1      \* SpecIO: retries the transport's failures may cause
MaxChecks == 2       \* calls of checkApiAvailability in flight at once

\* ------------------------------------------------------ program constants
MAX_RECONNECT_ATTEMPTS == 30
RECONNECT_DELAY == 5000
INITIAL_CONNECT_DELAY == 500
PING_INTERVAL == 30000
CHECK_INTERVAL == 30000
MIN_CHECK_DURATION == 5000

Hooks == 1..MaxHooks
Sockets == 1..MaxSockets
Listeners == 1..MaxListeners
Checks == 1..MaxChecks

\* readyState of a WebSocket object; FREE: the slot holds no object whose
\* handlers or timers can still run.
CONNECTING == "CONNECTING"
OPEN == "OPEN"
CLOSING == "CLOSING"
FREE == "FREE"

\* values of the error state of a hook (useState<string | null>)
NoError == "null"
TerminalError == "WebSocket connection failed after multiple attempts"
CreateError == "Failed to create WebSocket connection"

VARIABLES
    globalWs,                 \* 0 (null) or the socket the manager references
    globalMessageListeners,   \* the Set of callbacks, in insertion order
    globalConnecting,
    globalPingInterval,       \* 0 (null) or the handle of the ping interval
    globalReconnectAttempts,
    activeConnections,
    sock,                     \* socket -> [st, owner, req, tok]: readyState, the
                              \* hook of its setError, the isAuthRequired of the
                              \* call that created it, created with a token
                              \* subprotocol
    intervals,                \* handles of the setInterval timers still scheduled
    reconnectTimers,          \* socket -> the timer its onclose set:
                              \* [owner, delay, req]
    debounce,                 \* hook -> 0 or delay: initialConnectTimeout pending
    effectActive,             \* hook -> the effect registered a cleanup
    hookMounted,              \* hook -> the component is mounted
    hookApi,                  \* hook -> isApiAvailable state of the hook
    error,                    \* hook -> error state of the hook
    isAuthenticated,
    isAuthRequired,
    isLoading,
    token,                    \* localStorage holds a token
    inbox,                    \* socket -> frame the transport has for it
    delivered,                \* history: listener -> invocations for the server
                              \* event that is being delivered
    fan,                      \* history: the fan-out of the message event the
                              \* step before handled: the callbacks registered,
                              \* those invoked in order, those that threw, and
                              \* the callback (by) that ran the disposer of
                              \* another (of) while it was invoked
    pinged,                   \* history: "none", or the readyState of the socket
                              \* the step before sent a ping frame through
    tornDown,                 \* history: a full teardown ran and no debounced
                              \* connect has created a socket since
    terminal,                 \* history: the terminal error was surfaced and no
                              \* subscriber has registered since
    outputs,                  \* AppContent: the three tables (App.tsx 43-45),
    inputs,                   \* each the array of the data of the entities
    sensors,                  \* in order of arrival
    updates,                  \* AppContent: the updaters handed to setOutputs,
                              \* setInputs, setSensors that React has not yet
                              \* run, in the order of the calls
    appApi,                   \* AppContent: isApiAvailable of its own prober
    appSub,                   \* AppContent: its effect returned the unsubscribe
    received,                 \* history: the events AppContent's listener was
                              \* invoked with since the last clearing, in order
    applied,                  \* history: the events the updaters have been run
                              \* with since the last clearing, in order
    fresh,                    \* history: the tables for which the render of the
                              \* step before got a new array from an updater
    lastEvent,                \* history: the event the message handler of the
                              \* step before parsed (type "none": no event)
    loginResult,              \* history: how the promise of the last call of
                              \* login settled ("none": no call yet)
    proberMounted,            \* the component calling useApiAvailability is mounted
    proberAvailable,          \* useApiAvailability: isApiAvailable
    isChecking,               \* useApiAvailability: isChecking
    checkStartTimeRef,        \* -1: current is undefined; else the time since the
                              \* instant it holds, Date.now() - current, counted
                              \* up to MIN_CHECK_DURATION
    intervalRef,              \* -1: no interval timer; else the time left until
                              \* the timer it holds fires
    checks                    \* the calls of checkApiAvailability in flight:
                              \* [pc, kind, age, left, ok]

mgrVars == <<globalWs, globalMessageListeners, globalConnecting, globalPingInterval,
             globalReconnectAttempts, activeConnections, sock, intervals,
             reconnectTimers, debounce, effectActive, error>>
authVars == <<isAuthenticated, isAuthRequired, isLoading, token>>
histVars == <<delivered, fan, pinged>>
appVars == <<outputs, inputs, sensors, updates, appApi, appSub, received, applied,
             fresh, lastEvent>>
probeVars == <<proberMounted, proberAvailable, isChecking, checkStartTimeRef,
               intervalRef, checks>>
vars == <<mgrVars, hookMounted, hookApi, authVars, inbox, histVars, tornDown, terminal,
          appVars, loginResult, probeVars>>

\* The manager state as one value, so that the functions of the source
\* compose sequentially as they do in the code.
Mgr ==
    [globalWs |-> globalWs,
     globalMessageListeners |-> globalMessageListeners,
     globalConnecting |-> globalConnecting,
     globalPingInterval |-> globalPingInterval,
     globalReconnectAttempts |-> globalReconnectAttempts,
     activeConnections |-> activeConnections,
     sock |-> sock,
     intervals |-> intervals,
     reconnectTimers |-> reconnectTimers,
     debounce |-> debounce,
     effectActive |-> effectActive,
     error |-> error]

SetMgr(m) ==
    /\ globalWs' = m.globalWs
    /\ globalMessageListeners' = m.globalMessageListeners
    /\ globalConnecting' = m.globalConnecting
    /\ globalPingInterval' = m.globalPingInterval
    /\ globalReconnectAttempts' = m.globalReconnectAttempts
    /\ activeConnections' = m.activeConnections
    /\ sock' = m.sock
    /\ intervals' = m.intervals
    /\ reconnectTimers' = m.reconnectTimers
    /\ debounce' = m.debounce
    /\ effectActive' = m.effectActive
    /\ error' = m.error

NoTimer == [owner |-> 0, delay |-> 0, req |-> FALSE]
NoSocket == [st |-> FREE, owner |-> 0, req |-> FALSE, tok |-> FALSE]
NoFan == [regs |-> <<>>, called |-> <<>>, threw |-> {}, by |-> 0, of |-> 0]

\* A slot of checks that holds no call.
NoCheck == [pc |-> "idle", kind |-> "none", age |-> 0, left |-> 0, ok |-> FALSE]

\* useApiAvailability.ts 8-12 (useState and useRef initial values) and the
\* login form before any call of login.
InitProber ==
    /\ loginResult = "none"
    /\ proberMounted = FALSE
    /\ proberAvailable = TRUE
    /\ isChecking = TRUE
    /\ checkStartTimeRef = -1
    /\ intervalRef = -1
    /\ checks = [c \in Checks |-> NoCheck]

Init ==
    /\ globalWs = 0
    /\ globalMessageListeners = <<>>
    /\ globalConnecting = FALSE
    /\ globalPingInterval = 0
    /\ globalReconnectAttempts = 0
    /\ activeConnections = 0
    /\ sock = [s \in Sockets |-> NoSocket]
    /\ intervals = {}
    /\ reconnectTimers = [s \in Sockets |-> NoTimer]
    /\ debounce = [h \in Hooks |-> 0]
    /\ effectActive = [h \in Hooks |-> FALSE]
    /\ hookMounted = [h \in Hooks |-> FALSE]
    /\ hookApi = [h \in Hooks |-> TRUE]
    /\ error = [h \in Hooks |-> NoError]
    /\ isAuthenticated = FALSE
    /\ isAuthRequired = TRUE
    /\ isLoading = TRUE
    /\ token \in BOOLEAN
    /\ inbox = [s \in Sockets |-> "none"]
    /\ delivered = [l \in Listeners |-> 0]
    /\ fan = NoFan
    /\ pinged = "none"
    /\ tornDown = FALSE
    /\ terminal = FALSE
    /\ outputs = <<>>
    /\ inputs = <<>>
    /\ sensors = <<>>
    /\ updates = <<>>
    /\ appApi = TRUE
    /\ appSub = FALSE
    /\ received = <<>>
    /\ applied = <<>>
    /\ fresh = {}
    /\ lastEvent = [type |-> "none", data |-> [name |-> "", state |-> "", timestamp |-> 0]]
    /\ InitProber

\* ------------------------------------------------------------ helpers

\* setError of hook h; the setter of an unmounted component (h = 0) is a no-op.
setError(m, h, e) ==
    IF h = 0 THEN m ELSE [m EXCEPT !.error[h] = e]

\* WebSocket.close(): CONNECTING and OPEN become CLOSING, the close event
\* follows later as a task of its own.
closeCall(st) ==
    IF st \in {CONNECTING, OPEN} THEN CLOSING ELSE st

\* A slot is reusable when its object is gone: closed, its onclose handled,
\* the reconnect timer that handler set has fired, no frame left for it.
SlotFree(m, s) ==
    /\ m.sock[s].st = FREE
    /\ m.reconnectTimers[s] = NoTimer
    /\ s \notin m.intervals

FreeSlots(m) == {s \in Sockets : SlotFree(m, s)}

NewSlot(m) == CHOOSE s \in FreeSlots(m) : \A t \in FreeSlots(m) : s <= t

\* ------------------------------------------------ useWebSocket.ts 54-67
closeWebSocket(m) ==
    LET m1 == IF m.globalWs # 0
              THEN [m EXCEPT !.sock[m.globalWs].st = closeCall(@), !.globalWs = 0]
              ELSE m
        m2 == IF m1.globalPingInterval # 0
              THEN [m1 EXCEPT !.intervals = @ \ {m1.globalPingInterval},
                              !.globalPingInterval = 0]
              ELSE m1
    IN  [m2 EXCEPT !.globalMessageListeners = <<>>,
                   !.globalConnecting = FALSE,
                   !.globalReconnectAttempts = 0,
                   !.activeConnections = 0]

\* ------------------------------------------------ useWebSocket.ts 69-157
\* The guards of setupWebSocket: it goes on to create a socket.
setupProceeds(m, isApiAvailable) ==
    /\ isApiAvailable
    /\ ~((m.globalWs # 0 /\ m.sock[m.globalWs].st = OPEN) \/ m.globalConnecting)

\* useWebSocket.ts 90-91: the socket is created with a token subprotocol;
\* stored: localStorage holds a token.
protocols(authRequired, stored) == authRequired /\ stored

\* h: the hook whose setError the call carries; authRequired, isApiAvailable:
\* the arguments of the call; stored: localStorage holds a token; throws:
\* new WebSocket throws.
setupWebSocket(m, h, authRequired, isApiAvailable, stored, throws) ==
    IF ~setupProceeds(m, isApiAvailable) THEN m
    ELSE LET m1 == [m EXCEPT !.globalConnecting = TRUE] IN
         IF throws
         THEN [setError(m1, h, CreateError) EXCEPT !.globalConnecting = FALSE]
         ELSE [m1 EXCEPT !.globalWs = NewSlot(m),
                         !.sock[NewSlot(m)] =
                             [st |-> CONNECTING, owner |-> h, req |-> authRequired,
                              tok |-> protocols(authRequired, stored)]]

\* useWebSocket.ts 96-111; the browser has set readyState to OPEN.
onopen(m, s) ==
    LET m1 == [setError(m, m.sock[s].owner, NoError) EXCEPT
                   !.sock[s].st = OPEN,
                   !.globalConnecting = FALSE,
                   !.globalReconnectAttempts = 0]
        m2 == IF m1.globalPingInterval # 0
              THEN [m1 EXCEPT !.intervals = @ \ {m1.globalPingInterval}]
              ELSE m1
    IN  [m2 EXCEPT !.intervals = @ \cup {s}, !.globalPingInterval = s]

\* onclose with the ceiling test off by one (<= for <).
onclose_CeilingOffByOne(m, s) ==
    LET h == m.sock[s].owner
        m1 == IF m.globalPingInterval # 0
              THEN [m EXCEPT !.intervals = @ \ {m.globalPingInterval},
                             !.globalPingInterval = 0]
              ELSE m
        m2 == [m1 EXCEPT !.globalWs = 0,
                         !.globalConnecting = FALSE,
                         !.sock[s] = NoSocket]
    IN  IF m2.activeConnections > 0 /\ m2.globalReconnectAttempts <= MAX_RECONNECT_ATTEMPTS
        THEN [m2 EXCEPT !.globalReconnectAttempts = @ + 1,
                        !.reconnectTimers[s] =
                            [owner |-> h, delay |-> RECONNECT_DELAY, req |-> m.sock[s].req]]
        ELSE IF m2.globalReconnectAttempts >= MAX_RECONNECT_ATTEMPTS
        THEN setError(m2, h, TerminalError)
        ELSE m2

\* onclose that retries without looking at activeConnections.
onclose_IgnoresSubscribers(m, s) ==
    LET h == m.sock[s].owner
        m1 == IF m.globalPingInterval # 0
              THEN [m EXCEPT !.intervals = @ \ {m.globalPingInterval},
                             !.globalPingInterval = 0]
              ELSE m
        m2 == [m1 EXCEPT !.globalWs = 0,
                         !.globalConnecting = FALSE,
                         !.sock[s] = NoSocket]
    IN  IF m2.globalReconnectAttempts < MAX_RECONNECT_ATTEMPTS
        THEN [m2 EXCEPT !.globalReconnectAttempts = @ + 1,
                        !.reconnectTimers[s] =
                            [owner |-> h, delay |-> RECONNECT_DELAY, req |-> m.sock[s].req]]
        ELSE setError(m2, h, TerminalError)

\* The branch of onclose that surfaces the terminal error (144-145).
surfacesTerminal(m) ==
    /\ ~(m.activeConnections > 0 /\ m.globalReconnectAttempts < MAX_RECONNECT_ATTEMPTS)
    /\ m.globalReconnectAttempts >= MAX_RECONNECT_ATTEMPTS

\* useWebSocket.ts 131-147; the browser has set readyState to CLOSED.
onclose(m, s) ==
    LET h == m.sock[s].owner
        m1 == IF m.globalPingInterval # 0
              THEN [m EXCEPT !.intervals = @ \ {m.globalPingInterval},
                             !.globalPingInterval = 0]
              ELSE m
        m2 == [m1 EXCEPT !.globalWs = 0,
                         !.globalConnecting = FALSE,
                         !.sock[s] = NoSocket]
    IN  IF m2.activeConnections > 0 /\ m2.globalReconnectAttempts < MAX_RECONNECT_ATTEMPTS
        THEN [m2 EXCEPT !.globalReconnectAttempts = @ + 1,
                        !.reconnectTimers[s] =
                            [owner |-> h, delay |-> RECONNECT_DELAY, req |-> m.sock[s].req]]
        ELSE IF surfacesTerminal(m2)
        THEN setError(m2, h, TerminalError)
        ELSE m2

\* ---------------------------------------------- useWebSocket.ts 164-187
\* The effect body of hook h, run with the hook's isApiAvailable.
effect(m, h, isApiAvailable) ==
    IF ~isApiAvailable THEN m
    ELSE [m EXCEPT !.activeConnections = @ + 1,
                   !.debounce[h] = INITIAL_CONNECT_DELAY,
                   !.effectActive[h] = TRUE]

\* The cleanup the effect returned (none when the effect returned early).
cleanup(m, h) ==
    IF ~m.effectActive[h] THEN m
    ELSE LET m1 == [m EXCEPT !.debounce[h] = 0,
                             !.activeConnections = @ - 1,
                             !.effectActive[h] = FALSE]
         IN  IF m1.activeConnections = 0 THEN closeWebSocket(m1) ELSE m1

\* React commits a dependency change by running the cleanups of all the
\* effects concerned, then their bodies (frontend/src/hooks/useWebSocket.ts
\* 164-187 with deps [isAuthRequired, isApiAvailable]).
RECURSIVE cleanupAll(_, _)
cleanupAll(m, hs) ==
    IF hs = <<>> THEN m ELSE cleanupAll(cleanup(m, Head(hs)), Tail(hs))

RECURSIVE effectAll(_, _, _)
effectAll(m, hs, api) ==
    IF hs = <<>> THEN m ELSE effectAll(effect(m, Head(hs), api[Head(hs)]), Tail(hs), api)

\* Whether running the cleanups of hs in order reaches closeWebSocket.
RECURSIVE tearsDown(_, _)
tearsDown(m, hs) ==
    IF hs = <<>> THEN FALSE
    ELSE \/ (m.effectActive[Head(hs)] /\ m.activeConnections = 1)
         \/ tearsDown(cleanup(m, Head(hs)), Tail(hs))

RECURSIVE SeqOfSet(_)
SeqOfSet(S) ==
    IF S = {} THEN <<>>
    ELSE LET x == CHOOSE y \in S : \A z \in S : y <= z
         IN  <<x>> \o SeqOfSet(S \ {x})

MountedHooks == SeqOfSet({h \in Hooks : hookMounted[h]})

\* The setError of an unmounted component does nothing any more.
detach(m, h) ==
    [m EXCEPT !.sock = [s \in Sockets |->
                           IF @[s].owner = h THEN [@[s] EXCEPT !.owner = 0] ELSE @[s]],
              !.reconnectTimers = [s \in Sockets |->
                           IF @[s].owner = h
                           THEN [@[s] EXCEPT !.owner = 0] ELSE @[s]],
              !.error[h] = NoError]

\* A step that delivers nothing and pings nothing: the history of the step
\* before is dropped, and so are the counts of an event no socket still holds.
Forget ==
    /\ fan' = NoFan
    /\ pinged' = "none"
    /\ delivered' = IF \A s \in Sockets : inbox[s] = "none"
                    THEN [l \in Listeners |-> 0] ELSE delivered

\* ------------------------------------------------------------ actions

\* A component calling useWebSocket mounts: useState initial values
\* (useApiAvailability.ts 8, useWebSocket.ts 160), then the effect runs.
Mount(h) ==
    /\ ~hookMounted[h]
    /\ hookMounted' = [hookMounted EXCEPT ![h] = TRUE]
    /\ hookApi' = [hookApi EXCEPT ![h] = TRUE]
    /\ SetMgr(effect([Mgr EXCEPT !.error[h] = NoError], h, TRUE))
    /\ terminal' = FALSE
    /\ Forget
    /\ UNCHANGED <<authVars, inbox, tornDown, appVars, loginResult, probeVars>>

\* The component unmounts: the cleanup runs (useWebSocket.ts 180-186).
Unmount(h) ==
    /\ hookMounted[h]
    /\ hookMounted' = [hookMounted EXCEPT ![h] = FALSE]
    /\ SetMgr(detach(cleanup(Mgr, h), h))
    /\ tornDown' = (tornDown \/ tearsDown(Mgr, <<h>>))
    /\ UNCHANGED terminal
    /\ Forget
    /\ UNCHANGED <<hookApi, authVars, inbox, appVars, loginResult, probeVars>>

\* A liveness probe of the hook's own prober resolves with another value
\* (useApiAvailability.ts 40, 43): the effect is re-run.
ApiChange(h) ==
    /\ hookMounted[h]
    /\ hookApi' = [hookApi EXCEPT ![h] = ~hookApi[h]]
    /\ SetMgr(effect(cleanup(Mgr, h), h, ~hookApi[h]))
    /\ tornDown' = (tornDown \/ tearsDown(Mgr, <<h>>))
    /\ terminal' = (terminal /\ hookApi[h])
    /\ Forget
    /\ UNCHANGED <<hookMounted, authVars, inbox, appVars, loginResult, probeVars>>

\* checkAuth of AuthProvider resolves (formatters.ts 44-65); ok: the request
\* for /api/auth/required succeeded and answered `required`.
CheckAuth(ok, required) ==
    /\ isLoading
    /\ isLoading' = FALSE
    /\ isAuthRequired' = IF ok THEN required ELSE isAuthRequired
    /\ isAuthenticated' = IF ok /\ token THEN TRUE ELSE isAuthenticated
    /\ IF isAuthRequired' # isAuthRequired
       THEN /\ SetMgr(effectAll(cleanupAll(Mgr, MountedHooks), MountedHooks, hookApi))
            /\ tornDown' = (tornDown \/ tearsDown(Mgr, MountedHooks))
            /\ terminal' = (terminal /\ \A h \in Hooks : ~(hookMounted[h] /\ hookApi[h]))
       ELSE UNCHANGED <<mgrVars, tornDown, terminal>>
    /\ Forget
    /\ UNCHANGED <<hookMounted, hookApi, token, inbox, appVars, loginResult, probeVars>>

\* login succeeds (formatters.ts 67-74); LoginView is rendered while
\* !isAuthenticated && isAuthRequired (App.tsx 35-37).
LoginOk ==
    /\ ~isLoading
    /\ ~isAuthenticated /\ isAuthRequired
    /\ token' = TRUE
    /\ isAuthenticated' = TRUE
    /\ Forget
    /\ UNCHANGED <<mgrVars, hookMounted, hookApi, isAuthRequired, isLoading, inbox, tornDown, terminal, appVars, loginResult, probeVars>>

\* logout (formatters.ts 81-86); the button is rendered while isAuthenticated.
Logout ==
    /\ isAuthenticated
    /\ token' = FALSE
    /\ SetMgr(closeWebSocket(Mgr))
    /\ isAuthenticated' = FALSE
    /\ Forget
    /\ UNCHANGED <<hookMounted, hookApi, isAuthRequired, isLoading, inbox, tornDown, terminal, appVars, loginResult, probeVars>>

\* An HTTP call made through axiosInstance is answered 401: the response
\* interceptor (useWebSocket.ts 253-263) removes the stored token.
Http401 ==
    /\ token
    /\ token' = FALSE
    /\ Forget
    /\ UNCHANGED <<mgrVars, hookMounted, hookApi, isAuthenticated, isAuthRequired,
                   isLoading, inbox, tornDown, terminal, appVars, loginResult, probeVars>>

\* The debounced initial connect of hook h fires (useWebSocket.ts 173-178).
\* The effect is re-run whenever isAuthRequired changes and the timer is set
\* only with availability up, so the values connect closes over are the
\* current isAuthRequired and TRUE.
DebounceFire(h, throws) ==
    /\ debounce[h] # 0
    /\ setupProceeds(Mgr, TRUE) /\ ~throws => FreeSlots(Mgr) # {}
    /\ SetMgr(setupWebSocket([Mgr EXCEPT !.debounce[h] = 0], h, isAuthRequired, TRUE,
                             token, throws))
    /\ tornDown' = (tornDown /\ ~setupProceeds(Mgr, TRUE))
    /\ UNCHANGED terminal
    /\ Forget
    /\ UNCHANGED <<hookMounted, hookApi, authVars, inbox, appVars, loginResult, probeVars>>

\* The reconnect timer set by the onclose of socket s fires (useWebSocket.ts 143).
ReconnectFire(s, throws) ==
    /\ reconnectTimers[s] # NoTimer
    /\ LET m == [Mgr EXCEPT !.reconnectTimers[s] = NoTimer] IN
       /\ setupProceeds(m, TRUE) /\ ~throws => FreeSlots(m) # {}
       /\ SetMgr(setupWebSocket(m, reconnectTimers[s].owner, reconnectTimers[s].req,
                                TRUE, token, throws))
    /\ Forget
    /\ UNCHANGED <<hookMounted, hookApi, authVars, inbox, tornDown, terminal, appVars, loginResult, probeVars>>

\* The handshake of socket s succeeds: the open event.
OnOpen(s) ==
    /\ sock[s].st = CONNECTING
    /\ SetMgr(onopen(Mgr, s))
    /\ Forget
    /\ UNCHANGED <<hookMounted, hookApi, authVars, inbox, tornDown, terminal, appVars, loginResult, probeVars>>

\* The close event of socket s: a failed handshake, a connection the server
\* or the network ended, or the end of a close() the manager asked for.
OnClose(s) ==
    /\ sock[s].st \in {CONNECTING, OPEN, CLOSING}
    /\ SetMgr(onclose(Mgr, s))
    /\ inbox' = [inbox EXCEPT ![s] = "none"]
    /\ terminal' = (terminal \/ surfacesTerminal(Mgr))
    /\ Forget
    /\ UNCHANGED <<hookMounted, hookApi, authVars, tornDown, appVars, loginResult, probeVars>>

\* ------------------------------------------- the ping interval callback
\* The callback without the readyState test of line 107.
pingTarget_NoStateTest(m) == m.globalWs

\* useWebSocket.ts 106-110: the socket the ping goes through, 0 for none.
pingTarget(m) ==
    IF m.globalWs # 0 /\ m.sock[m.globalWs].st = OPEN THEN m.globalWs ELSE 0

\* The interval with handle t fires.
PingFire(t) ==
    /\ t \in intervals
    /\ pinged' = IF pingTarget(Mgr) # 0 THEN sock[pingTarget(Mgr)].st ELSE "none"
    /\ fan' = NoFan
    /\ delivered' = IF \A s \in Sockets : inbox[s] = "none"
                    THEN [l \in Listeners |-> 0] ELSE delivered
    /\ UNCHANGED <<mgrVars, hookMounted, hookApi, authVars, inbox, tornDown, terminal, appVars, loginResult, probeVars>>

\* ------------------------------------------------ useWebSocket.ts 113-129
\* forEach without the inner try/catch: the first throw ends the iteration.
RECURSIVE callListeners_StopsAtThrow(_, _)
callListeners_StopsAtThrow(regs, thr) ==
    IF regs = <<>> THEN <<>>
    ELSE IF Head(regs) \in thr THEN <<Head(regs)>>
    ELSE <<Head(regs)>> \o callListeners_StopsAtThrow(Tail(regs), thr)

\* The listeners forEach invokes, in order; thr: the callbacks that throw.
\* The try/catch inside the loop keeps a throw from ending the iteration.
RECURSIVE callListeners(_, _)
callListeners(regs, thr) ==
    IF regs = <<>> THEN <<>>
    ELSE <<Head(regs)>> \o callListeners(Tail(regs), thr)

Range(q) == {q[i] : i \in 1..Len(q)}

Count(q, x) == Cardinality({i \in 1..Len(q) : q[i] = x})

\* The fan-out record of one message event; frame: "pong", "bad" (JSON.parse
\* throws) or "event".
onmessage(m, frame, thr) ==
    IF frame = "pong" THEN NoFan
    ELSE IF frame = "bad" THEN NoFan
    ELSE [regs |-> m.globalMessageListeners,
          called |-> callListeners(m.globalMessageListeners, thr),
          threw |-> thr \cap Range(callListeners(m.globalMessageListeners, thr)),
          by |-> 0, of |-> 0]

\* The server publishes one state update: every connection it holds gets it.
ServerEvent ==
    /\ \A s \in Sockets : inbox[s] = "none"
    /\ \E s \in Sockets : sock[s].st = OPEN
    /\ inbox' = [s \in Sockets |-> IF sock[s].st = OPEN THEN "event" ELSE "none"]
    /\ delivered' = [l \in Listeners |-> 0]
    /\ fan' = NoFan
    /\ pinged' = "none"
    /\ UNCHANGED <<mgrVars, hookMounted, hookApi, authVars, tornDown, terminal, appVars, loginResult, probeVars>>

\* The message event of a frame that is no state update: the "pong" that
\* answers a ping, or a frame that is no JSON ("bad").
OnFrame(s, frame) ==
    /\ sock[s].st = OPEN
    /\ fan' = onmessage(Mgr, frame, {})
    /\ pinged' = "none"
    /\ UNCHANGED <<mgrVars, hookMounted, hookApi, authVars, inbox, delivered, tornDown, terminal, appVars, loginResult, probeVars>>

\* The message event of the state update socket s holds; a socket that is
\* no longer OPEN gets none.
OnMessage(s, thr) ==
    /\ inbox[s] # "none"
    /\ inbox' = [inbox EXCEPT ![s] = "none"]
    /\ pinged' = "none"
    /\ IF sock[s].st = OPEN
       THEN /\ fan' = onmessage(Mgr, inbox[s], thr)
            /\ delivered' = [l \in Listeners |-> delivered[l] + Count(fan'.called, l)]
       ELSE /\ fan' = NoFan
            /\ UNCHANGED delivered
    /\ UNCHANGED <<mgrVars, hookMounted, hookApi, authVars, tornDown, terminal, appVars, loginResult, probeVars>>

\* ------------------------------------------------ useWebSocket.ts 189-194
addMessageListener(m, l) ==
    IF l \in Range(m.globalMessageListeners) THEN m
    ELSE [m EXCEPT !.globalMessageListeners = Append(@, l)]

disposer(m, l) ==
    [m EXCEPT !.globalMessageListeners = SelectSeq(@, LAMBDA x : x # l)]

\* A view registers a fresh callback l.
AddListener(l) ==
    /\ l \notin Range(globalMessageListeners)
    /\ SetMgr(addMessageListener(Mgr, l))
    /\ Forget
    /\ UNCHANGED <<hookMounted, hookApi, authVars, inbox, tornDown, terminal, appVars, loginResult, probeVars>>

\* The view runs the disposer of its callback l.
Dispose(l) ==
    /\ l \in Range(globalMessageListeners)
    /\ SetMgr(disposer(Mgr, l))
    /\ Forget
    /\ UNCHANGED <<hookMounted, hookApi, authVars, inbox, tornDown, terminal, appVars, loginResult, probeVars>>

\* forEach over a copy of the set taken when the event arrived.
forEachUnsub_Snapshot(regs, l, k) == regs

\* Set.prototype.forEach (useWebSocket.ts 119) when the callback l, while it
\* is invoked, runs the disposer of callback k: the iteration is over the
\* live set, an entry deleted before its turn is not visited.
RECURSIVE forEachUnsub(_, _, _)
forEachUnsub(regs, l, k) ==
    IF regs = <<>> THEN <<>>
    ELSE <<Head(regs)>> \o
         forEachUnsub(IF Head(regs) = l
                      THEN SelectSeq(Tail(regs), LAMBDA x : x # k)
                      ELSE Tail(regs), l, k)

\* The message event of the state update socket s holds, with a callback l
\* that unsubscribes callback k when it is invoked.
OnMessageUnsub(s, l, k) ==
    /\ inbox[s] = "event"
    /\ sock[s].st = OPEN
    /\ {l, k} \subseteq Range(globalMessageListeners)
    /\ inbox' = [inbox EXCEPT ![s] = "none"]
    /\ pinged' = "none"
    /\ fan' = [regs |-> globalMessageListeners,
               called |-> forEachUnsub(globalMessageListeners, l, k),
               threw |-> {}, by |-> l, of |-> k]
    /\ delivered' = [x \in Listeners |-> delivered[x] + Count(fan'.called, x)]
    /\ SetMgr(disposer(Mgr, k))
    /\ UNCHANGED <<hookMounted, hookApi, authVars, tornDown, terminal, appVars, loginResult, probeVars>>

\* ------------------------------------------------------------ the system
\* The connection manager and the React and auth events that drive it.
\* Listener registration, incoming frames and the ping callback change none
\* of the variables these actions read (closeWebSocket only clears the
\* listener set), so the manager's reachable states are those of NextConn.
NextConn ==
    \/ \E h \in Hooks : Mount(h)
    \/ \E h \in Hooks : Unmount(h)
    \/ \E h \in Hooks : ApiChange(h)
    \/ \E ok \in BOOLEAN, required \in BOOLEAN : CheckAuth(ok, required)
    \/ LoginOk
    \/ Logout
    \/ Http401
    \/ \E h \in Hooks, throws \in BOOLEAN : DebounceFire(h, throws)
    \/ \E s \in Sockets, throws \in BOOLEAN : ReconnectFire(s, throws)
    \/ \E s \in Sockets : OnOpen(s)
    \/ \E s \in Sockets : OnClose(s)

Spec == Init /\ [][NextConn]_vars

\* A close event that does not take the retry counter beyond MaxRetries.
OnCloseIO(s) ==
    /\ activeConnections > 0 => globalReconnectAttempts < MaxRetries
    /\ OnClose(s)

\* The whole layer, frames and listeners included, for the application as
\* it is assembled: the one component that calls useWebSocket (App.tsx 48) is
\* the root of the routes and stays mounted for the life of the page.  The
\* transport ends a connection only while the retry counter is below
\* MaxRetries, which keeps the counter, of no concern to the fan-out, from
\* multiplying the states.
NextIO ==
    \/ \E h \in Hooks : Mount(h)
    \/ \E h \in Hooks : ApiChange(h)
    \/ \E ok \in BOOLEAN, required \in BOOLEAN : CheckAuth(ok, required)
    \/ LoginOk
    \/ Logout
    \/ \E h \in Hooks, throws \in BOOLEAN : DebounceFire(h, throws)
    \/ \E s \in Sockets, throws \in BOOLEAN : ReconnectFire(s, throws)
    \/ \E s \in Sockets : OnOpen(s)
    \/ \E s \in Sockets : OnCloseIO(s)
    \/ \E t \in Sockets : PingFire(t)
    \/ ServerEvent
    \/ \E s \in Sockets, frame \in {"pong", "bad"} : OnFrame(s, frame)
    \/ \E s \in Sockets, thr \in SUBSET Listeners : OnMessage(s, thr)
    \/ \E s \in Sockets, l \in Listeners, k \in Listeners : OnMessageUnsub(s, l, k)
    \/ \E l \in Listeners : AddListener(l)
    \/ \E l \in Listeners : Dispose(l)

SpecIO == Init /\ [][NextIO]_vars

\* ---------------------------------------------------------- App.tsx 42-113
\* AppContent: the component that calls useWebSocket (hook AppHook), keeps
\* the three tables and registers one callback (AppListener).
MaxEvents == 3       \* events the listener is invoked with between two clearings
MaxAppEvents == 2    \* SpecApp: the same, for the runs with authentication

AppHook == 1
AppListener == 1

MessageTypes == {"output", "input", "sensor", "modbus_sensor"}
EntityNames == {"relay1", "relay2"}
EntityStates == {"ON", "OFF"}
TableNames == {"outputs", "inputs", "sensors"}

\* A state update as the server stamps it: timestamps grow with the events.
StateUpdate(type, name, state, timestamp) ==
    [type |-> type, data |-> [name |-> name, state |-> state, timestamp |-> timestamp]]

NoEvent == StateUpdate("none", "", "", 0)

Tables == [outputs |-> outputs, inputs |-> inputs, sensors |-> sensors]

NoTables == [outputs |-> <<>>, inputs |-> <<>>, sensors |-> <<>>]

\* prev.findIndex(o => o.name === name), 0 for -1
findIndex(prev, name) ==
    IF \E i \in 1..Len(prev) : prev[i].name = name
    THEN CHOOSE i \in 1..Len(prev) :
            /\ prev[i].name = name
            /\ \A j \in 1..(i - 1) : prev[j].name # name
    ELSE 0

\* The updater without the test for an unchanged state.
reduce_NoSuppression(prev, data) ==
    LET index == findIndex(prev, data.name) IN
    IF index > 0
    THEN [rows |-> [prev EXCEPT ![index] = data], isNew |-> TRUE]
    ELSE [rows |-> Append(prev, data), isNew |-> TRUE]

\* The updater that never looks the name up.
reduce_AlwaysAppends(prev, data) ==
    [rows |-> Append(prev, data), isNew |-> TRUE]

\* The updater that moves a changed entity to the end.
reduce_MovesToEnd(prev, data) ==
    LET index == findIndex(prev, data.name) IN
    IF index > 0
    THEN IF prev[index].state = data.state
         THEN [rows |-> prev, isNew |-> FALSE]
         ELSE [rows |-> Append(SelectSeq(prev, LAMBDA o : o.name # data.name), data),
               isNew |-> TRUE]
    ELSE [rows |-> Append(prev, data), isNew |-> TRUE]

\* The updater of setOutputs, setInputs, setSensors (App.tsx 65-77, 79-91,
\* 93-105): rows is the array returned, isNew tells that it is a new array
\* and not prev itself.
reduce(prev, data) ==
    LET index == findIndex(prev, data.name) IN
    IF index > 0
    THEN IF prev[index].state = data.state
         THEN [rows |-> prev, isNew |-> FALSE]
         ELSE [rows |-> [prev EXCEPT ![index] = data], isNew |-> TRUE]
    ELSE [rows |-> Append(prev, data), isNew |-> TRUE]

\* The table the listener updates for a message type (App.tsx 64, 78, 92).
tableOf(type) ==
    IF type = "output" THEN "outputs"
    ELSE IF type = "input" THEN "inputs"
    ELSE IF type \in {"modbus_sensor", "sensor"} THEN "sensors"
    ELSE "none"

\* Every updater computes from the table of the last render, not from the
\* result of the updater queued before it.
RECURSIVE applyUpdates_StaleTable(_, _)
applyUpdates_StaleTable(r, q) ==
    IF q = <<>> THEN r
    ELSE LET t == tableOf(Head(q).type)
             u == reduce(Tables[t], Head(q).data)
         IN  applyUpdates_StaleTable(
                 [r EXCEPT !.tables[t] = u.rows,
                           !.isNew = IF u.isNew THEN @ \cup {t} ELSE @,
                           !.log = Append(@, Head(q))],
                 Tail(q))

\* React runs the queued updaters in the order of the setState calls, each
\* on the result of the one before (App.tsx 65, 79, 93: the functional form).
\* r: [tables, isNew, log].
RECURSIVE applyUpdates(_, _)
applyUpdates(r, q) ==
    IF q = <<>> THEN r
    ELSE LET t == tableOf(Head(q).type)
             u == reduce(r.tables[t], Head(q).data)
         IN  applyUpdates(
                 [r EXCEPT !.tables[t] = u.rows,
                           !.isNew = IF u.isNew THEN @ \cup {t} ELSE @,
                           !.log = Append(@, Head(q))],
                 Tail(q))

\* The render of AppContent: the pending updaters are run.
rendered == applyUpdates([tables |-> Tables, isNew |-> {}, log |-> <<>>], updates)

\* The condition of the clearing branch (App.tsx 54).
appCond(authenticated, authRequired, apiAvailable) ==
    (~authenticated /\ authRequired) \/ ~apiAvailable

\* The cleanup that leaves the callback registered.
appCleanup_KeepsListener(m, sub) == m

\* The cleanup of AppContent's effect, when the effect returned one
\* (App.tsx 109-111).
appCleanup(m, sub) ==
    IF sub THEN disposer(m, AppListener) ELSE m

\* The body of AppContent's effect on the listener set (App.tsx 54-63).
appEffect(m, authenticated, authRequired, apiAvailable) ==
    IF appCond(authenticated, authRequired, apiAvailable) THEN m
    ELSE addMessageListener(m, AppListener)

\* A commit of AppContent in which a dependency of its effect changed (or
\* the mount): the render runs the pending updaters, the cleanup of the last
\* effect runs, then the effect; the three setters of its clearing branch
\* (App.tsx 55-57) are processed in one render.  m: the manager as the rest
\* of the commit leaves it.
AppCommit(m, authenticated, authRequired, apiAvailable) ==
    /\ SetMgr(appEffect(appCleanup(m, appSub), authenticated, authRequired, apiAvailable))
    /\ appSub' = ~appCond(authenticated, authRequired, apiAvailable)
    /\ updates' = <<>>
    /\ fresh' = {}
    /\ lastEvent' = NoEvent
    /\ IF appCond(authenticated, authRequired, apiAvailable)
       THEN /\ outputs' = <<>>
            /\ inputs' = <<>>
            /\ sensors' = <<>>
            /\ received' = <<>>
            /\ applied' = <<>>
       ELSE /\ outputs' = rendered.tables.outputs
            /\ inputs' = rendered.tables.inputs
            /\ sensors' = rendered.tables.sensors
            /\ applied' = applied \o rendered.log
            /\ UNCHANGED received

\* AppContent mounts: useState initial values (App.tsx 43-47), the effect
\* of useWebSocket (line 48), then AppContent's own effect (line 50).
MountApp ==
    /\ ~hookMounted[AppHook]
    /\ hookMounted' = [hookMounted EXCEPT ![AppHook] = TRUE]
    /\ hookApi' = [hookApi EXCEPT ![AppHook] = TRUE]
    /\ appApi' = TRUE
    /\ AppCommit(effect([Mgr EXCEPT !.error[AppHook] = NoError], AppHook, TRUE),
                 isAuthenticated, isAuthRequired, TRUE)
    /\ terminal' = FALSE
    /\ Forget
    /\ UNCHANGED <<authVars, inbox, tornDown, loginResult, probeVars>>

\* checkAuth resolves (formatters.ts 44-65) with AppContent in the tree: the
\* effect of useWebSocket is re-run when isAuthRequired changed, AppContent's
\* effect when isAuthenticated or isAuthRequired changed.
CheckAuthApp(ok, required) ==
    /\ isLoading
    /\ isLoading' = FALSE
    /\ isAuthRequired' = IF ok THEN required ELSE isAuthRequired
    /\ isAuthenticated' = IF ok /\ token THEN TRUE ELSE isAuthenticated
    /\ LET m == IF isAuthRequired' # isAuthRequired
                THEN effectAll(cleanupAll(Mgr, MountedHooks), MountedHooks, hookApi)
                ELSE Mgr
       IN  IF hookMounted[AppHook] /\ <<isAuthenticated', isAuthRequired'>> #
                                       <<isAuthenticated, isAuthRequired>>
           THEN /\ AppCommit(m, isAuthenticated', isAuthRequired', appApi)
                /\ UNCHANGED appApi
           ELSE /\ SetMgr(m)
                /\ UNCHANGED appVars
    /\ IF isAuthRequired' # isAuthRequired
       THEN /\ tornDown' = (tornDown \/ tearsDown(Mgr, MountedHooks))
            /\ terminal' = (terminal /\ \A h \in Hooks : ~(hookMounted[h] /\ hookApi[h]))
       ELSE UNCHANGED <<tornDown, terminal>>
    /\ Forget
    /\ UNCHANGED <<hookMounted, hookApi, token, inbox, loginResult, probeVars>>

\* login succeeds (formatters.ts 67-74) from the LoginView AppContent renders.
LoginApp ==
    /\ hookMounted[AppHook]
    /\ ~isLoading
    /\ ~isAuthenticated /\ isAuthRequired
    /\ token' = TRUE
    /\ isAuthenticated' = TRUE
    /\ AppCommit(Mgr, TRUE, isAuthRequired, appApi)
    /\ Forget
    /\ UNCHANGED <<hookMounted, hookApi, isAuthRequired, isLoading, inbox, tornDown,
                   terminal, appApi, loginResult, probeVars>>

\* logout (formatters.ts 81-86) from the navigation AppContent renders.
LogoutApp ==
    /\ hookMounted[AppHook]
    /\ isAuthenticated
    /\ token' = FALSE
    /\ isAuthenticated' = FALSE
    /\ AppCommit(closeWebSocket(Mgr), FALSE, isAuthRequired, appApi)
    /\ Forget
    /\ UNCHANGED <<hookMounted, hookApi, isAuthRequired, isLoading, inbox, tornDown,
                   terminal, appApi, loginResult, probeVars>>

\* A probe of AppContent's own prober (App.tsx 47) resolves with another
\* value (useApiAvailability.ts 40, 43): AppContent's effect is re-run.
AppApiChange ==
    /\ hookMounted[AppHook]
    /\ appApi' = ~appApi
    /\ AppCommit(Mgr, isAuthenticated, isAuthRequired, ~appApi)
    /\ Forget
    /\ UNCHANGED <<hookMounted, hookApi, authVars, inbox, tornDown, terminal, loginResult, probeVars>>

\* The message event of a state update on socket s (useWebSocket.ts
\* 113-129): the callbacks registered are invoked, AppContent's listener
\* hands the updater of the table concerned to React (App.tsx 63-107).
OnEvent(s, type, name, state) ==
    /\ sock[s].st = OPEN
    /\ Len(received) < MaxEvents
    /\ LET message == StateUpdate(type, name, state, Len(received) + 1) IN
       /\ fan' = onmessage(Mgr, "event", {})
       /\ lastEvent' = message
       /\ IF AppListener \in Range(fan'.called)
          THEN /\ received' = Append(received, message)
               /\ updates' = IF tableOf(type) \in TableNames
                             THEN Append(updates, message) ELSE updates
          ELSE UNCHANGED <<received, updates>>
    /\ pinged' = "none"
    /\ fresh' = {}
    /\ UNCHANGED <<mgrVars, hookMounted, hookApi, authVars, inbox, delivered, tornDown,
                   terminal, outputs, inputs, sensors, appApi, appSub, applied, loginResult, probeVars>>

\* The same, for the runs with authentication.
OnEventApp(s, type, name, state) ==
    /\ Len(received) < MaxAppEvents
    /\ OnEvent(s, type, name, state)

\* React renders AppContent: the pending updaters are run in order.
Render ==
    /\ updates # <<>>
    /\ outputs' = rendered.tables.outputs
    /\ inputs' = rendered.tables.inputs
    /\ sensors' = rendered.tables.sensors
    /\ applied' = applied \o rendered.log
    /\ fresh' = rendered.isNew
    /\ updates' = <<>>
    /\ lastEvent' = NoEvent
    /\ Forget
    /\ UNCHANGED <<mgrVars, hookMounted, hookApi, authVars, inbox, tornDown, terminal,
                   appApi, appSub, received, loginResult, probeVars>>

\* AppContent, its subscription and its tables with the authentication
\* events, on a connection that is established and stays up until a logout or
\* a re-run of the effect of useWebSocket closes it.
NextApp ==
    \/ MountApp
    \/ \E ok \in BOOLEAN, required \in BOOLEAN : CheckAuthApp(ok, required)
    \/ LoginApp
    \/ LogoutApp
    \/ AppApiChange
    \/ \E h \in Hooks, throws \in BOOLEAN : DebounceFire(h, throws)
    \/ \E s \in Sockets : OnOpen(s)
    \/ \E s \in Sockets, frame \in {"pong", "bad"} : OnFrame(s, frame)
    \/ \E s \in Sockets, type \in MessageTypes, name \in EntityNames,
          state \in EntityStates : OnEventApp(s, type, name, state)
    \/ Render

SpecApp == Init /\ [][NextApp]_vars

\* The listener and the tables alone, from the state the application is in
\* once it runs against a backend that requires no authentication: AppContent
\* mounted, /api/auth/required answered false, the socket open, the
\* listener registered.
InitTables ==
    /\ globalWs = 1
    /\ globalMessageListeners = <<AppListener>>
    /\ globalConnecting = FALSE
    /\ globalPingInterval = 1
    /\ globalReconnectAttempts = 0
    /\ activeConnections = 1
    /\ sock = [s \in Sockets |->
                 IF s = 1 THEN [st |-> OPEN, owner |-> AppHook, req |-> FALSE, tok |-> FALSE]
                 ELSE NoSocket]
    /\ intervals = {1}
    /\ reconnectTimers = [s \in Sockets |-> NoTimer]
    /\ debounce = [h \in Hooks |-> 0]
    /\ effectActive = [h \in Hooks |-> h = AppHook]
    /\ hookMounted = [h \in Hooks |-> h = AppHook]
    /\ hookApi = [h \in Hooks |-> TRUE]
    /\ error = [h \in Hooks |-> NoError]
    /\ isAuthenticated = FALSE
    /\ isAuthRequired = FALSE
    /\ isLoading = FALSE
    /\ token = FALSE
    /\ inbox = [s \in Sockets |-> "none"]
    /\ delivered = [l \in Listeners |-> 0]
    /\ fan = NoFan
    /\ pinged = "none"
    /\ tornDown = FALSE
    /\ terminal = FALSE
    /\ outputs = <<>>
    /\ inputs = <<>>
    /\ sensors = <<>>
    /\ updates = <<>>
    /\ appApi = TRUE
    /\ appSub = TRUE
    /\ received = <<>>
    /\ applied = <<>>
    /\ fresh = {}
    /\ lastEvent = NoEvent
    /\ InitProber

NextTables ==
    \/ \E s \in Sockets, type \in MessageTypes, name \in EntityNames,
          state \in EntityStates : OnEvent(s, type, name, state)
    \/ \E s \in Sockets, frame \in {"pong", "bad"} : OnFrame(s, frame)
    \/ Render
    \/ AppApiChange

SpecTables == InitTables /\ [][NextTables]_vars

\* ------------------------------------------------------- step predicates
\* The step creates a WebSocket object (useWebSocket.ts 94).
Created == \E s \in Sockets : sock[s].st = FREE /\ sock'[s].st = CONNECTING

\* The step handles the close event of socket s.
CloseHandled(s) == sock[s].st # FREE /\ sock'[s].st = FREE

\* The step is the debounced connect of hook h firing.
DebounceFired(h) == debounce[h] # 0 /\ debounce'[h] = 0 /\ effectActive'[h]

LiveSockets == {s \in Sockets : sock[s].st \in {CONNECTING, OPEN}}

PendingTimers ==
    {h \in Hooks : debounce[h] # 0} \cup {s \in Sockets : reconnectTimers[s] # NoTimer}

\* ------------------------------------------------------------ claims

\* C1: at most one socket is connecting or open at any time, and globalWs
\* points to it.
C1_SingleSocket ==
    /\ Cardinality(LiveSockets) <= 1
    /\ \A s \in LiveSockets : globalWs = s

\* C2: every socket is created in a state with at least one active
\* subscriber (activeConnections > 0).
C2_NoSocketWithoutSubscriber ==
    [][Created => activeConnections > 0]_vars

\* C4: the reconnect counter stays between 0 and MAX_RECONNECT_ATTEMPTS.
C4_CounterInRange ==
    globalReconnectAttempts \in 0..MAX_RECONNECT_ATTEMPTS

C4_Witness ==
    /\ globalReconnectAttempts = MAX_RECONNECT_ATTEMPTS
    /\ \E s \in Sockets : reconnectTimers[s] # NoTimer

\* C5: after a full teardown, the next debounced (subscriber-triggered)
\* connection attempt starts with the reconnect counter at zero.
C5_FreshCounterAfterTeardown ==
    [][\A h \in Hooks :
         tornDown /\ DebounceFired(h) /\ Created => globalReconnectAttempts = 0]_vars

\* C6: a close event handled with activeConnections > 0 and the counter below
\* the ceiling adds one to the counter and schedules exactly one reconnect
\* with delay RECONNECT_DELAY; with zero active subscribers it schedules
\* nothing and leaves the counter as it was.
C6_CloseSchedulesOneReconnect ==
    [][\A s \in Sockets : CloseHandled(s) =>
         /\ (activeConnections > 0 /\ globalReconnectAttempts < MAX_RECONNECT_ATTEMPTS) =>
               /\ globalReconnectAttempts' = globalReconnectAttempts + 1
               /\ reconnectTimers'[s] # NoTimer
               /\ reconnectTimers'[s].delay = RECONNECT_DELAY
               /\ \A r \in Sockets \ {s} : reconnectTimers'[r] = reconnectTimers[r]
         /\ activeConnections = 0 =>
               /\ globalReconnectAttempts' = globalReconnectAttempts
               /\ reconnectTimers' = reconnectTimers]_vars

C6_Witness ==
    /\ activeConnections > 0
    /\ globalReconnectAttempts = 2
    /\ Cardinality({s \in Sockets : reconnectTimers[s] # NoTimer}) = 1

\* C8: when the session becomes able to use the channel (login: the view
\* registers its listener) while a subscriber is mounted with availability up,
\* no socket exists and no error was surfaced, a connection attempt is
\* scheduled.
C8_LoginSchedulesConnect ==
    [][\A h \in Hooks :
         (/\ hookMounted[h] /\ hookApi[h] /\ error[h] = NoError
          /\ ~isAuthenticated /\ isAuthenticated'
          /\ \A s \in Sockets : sock[s].st = FREE)
         => PendingTimers' # {}]_vars

\* C7: once the terminal error has been surfaced it is not surfaced again,
\* the manager creates no socket until a new subscriber registers, and the
\* counter is zero when that subscriber has registered.
C7_TerminalOnceThenQuiet ==
    [][terminal =>
         /\ \A s \in Sockets :
               ~(CloseHandled(s) /\ globalReconnectAttempts >= MAX_RECONNECT_ATTEMPTS)
         /\ terminal' => ~Created
         /\ ~terminal' => globalReconnectAttempts' = 0]_vars

\* The step is the message event of a state update on the open socket s.
MessageHandled(s) ==
    /\ inbox[s] = "event" /\ inbox'[s] = "none"
    /\ sock[s].st = OPEN /\ sock'[s].st = OPEN

\* C3: no listener is invoked more than once for one event of the server.
C3_DeliveredAtMostOnce ==
    \A l \in Listeners : delivered[l] <= 1

\* C9: a ping frame goes only through a socket that is OPEN; the step that
\* handles a close event leaves no ping interval scheduled, and an interval
\* appears only in the step of a successful open.
C9_HeartbeatOnlyWhileOpen ==
    /\ [](pinged \in {"none", OPEN})
    /\ [][(\E s \in Sockets : CloseHandled(s)) => intervals' = {}]_vars
    /\ [][(intervals = {} /\ intervals' # {}) =>
             \E s \in Sockets : sock[s].st = CONNECTING /\ sock'[s].st = OPEN]_vars

C9_Witness ==
    /\ pinged = OPEN
    /\ globalPingInterval # 0

\* C10: when a callback throws during a fan-out, every listener registered
\* at that moment is still invoked, and the socket reference, the connecting
\* flag, the reconnect counter and the ping interval are left as they were.
C10_ThrowIsolated ==
    /\ [](fan.threw # {} => fan.called = fan.regs)
    /\ [][(fan'.threw # {} /\ \E s \in Sockets : MessageHandled(s)) =>
             UNCHANGED <<globalWs, globalConnecting, globalReconnectAttempts,
                         globalPingInterval, intervals>>]_vars

C10_Witness ==
    /\ Len(fan.regs) = 2
    /\ fan.threw = {fan.regs[1]}
    /\ fan.called = fan.regs

\* The step runs the cleanup of hook h down to closeWebSocket and registers
\* no subscriber again (an unmount, or availability going down).
TornDownBy(h) == effectActive[h] /\ ~effectActive'[h] /\ activeConnections' = 0

\* C13: after a teardown (the last subscriber unsubscribed) no debounce
\* timer, no heartbeat interval and no reconnect timer is pending.
C13_NoTimerAfterTeardown ==
    [][\A h \in Hooks : TornDownBy(h) => PendingTimers' = {} /\ intervals' = {}]_vars

\* C19: the handler of a 401 response leaves no stored credential and
\* isAuthenticated false, and a socket created while no credential is stored
\* carries no token subprotocol.
C19_Eviction401 ==
    /\ [][Http401 => ~token' /\ ~isAuthenticated']_vars
    /\ [][\A s \in Sockets :
            (sock[s].st = FREE /\ sock'[s].st = CONNECTING /\ ~token) => ~sock'[s].tok]_vars

\* C20: when logout has returned, no socket created with the token
\* subprotocol is connecting or open.
C20_NoAuthenticatedSocketAfterLogout ==
    [][Logout => \A s \in Sockets :
                    sock'[s].tok => sock'[s].st \notin {CONNECTING, OPEN}]_vars

\* C12: a callback whose disposer has run is not invoked again: not for a
\* later event (only callbacks registered when the event arrives are invoked)
\* and not in the fan-out during which the disposer ran, when its turn had
\* not come yet.
C12_NoCallAfterDispose ==
    /\ [](\A i \in 1..Len(fan.called), j \in 1..Len(fan.called) :
             (fan.called[i] = fan.by /\ i < j) => fan.called[j] # fan.of)
    /\ [][\A s \in Sockets : MessageHandled(s) =>
             Range(fan'.called) \subseteq Range(globalMessageListeners)]_vars

C12_Witness ==
    /\ Len(fan.regs) = 2
    /\ fan.by = fan.regs[1]
    /\ fan.of = fan.regs[2]
    /\ fan.called = <<fan.by>>
    /\ globalMessageListeners = <<fan.by>>

\* ------------------------------------------------ claims about AppContent
Front(q) == SubSeq(q, 1, Len(q) - 1)

\* The table t after the updaters of the events q, one event after the other.
RECURSIVE InOrder(_, _)
InOrder(t, q) ==
    IF q = <<>> THEN <<>>
    ELSE IF tableOf(q[Len(q)].type) = t
    THEN reduce(InOrder(t, Front(q)), q[Len(q)].data).rows
    ELSE InOrder(t, Front(q))

\* The data of the events of q that go to table t.
RECURSIVE DataFor(_, _)
DataFor(t, q) ==
    IF q = <<>> THEN <<>>
    ELSE IF tableOf(Head(q).type) = t
    THEN <<Head(q).data>> \o DataFor(t, Tail(q))
    ELSE DataFor(t, Tail(q))

\* The names of the data d, each at its first occurrence.
RECURSIVE FirstSeen(_)
FirstSeen(d) ==
    IF d = <<>> THEN <<>>
    ELSE LET f == FirstSeen(Front(d)) IN
         IF d[Len(d)].name \in Range(f) THEN f ELSE Append(f, d[Len(d)].name)

NamesOf(rows) == [i \in 1..Len(rows) |-> rows[i].name]

\* C11: the listener gets every event at the moment the socket's message
\* handler parses it, in that order; the updaters run in the order of the
\* events, none dropped, none merged: once all have run, every table is what
\* the events applied one by one in order of arrival give.
C11_EventsInOrder ==
    /\ [](applied \o updates = received)
    /\ [](updates = <<>> => \A t \in TableNames : Tables[t] = InOrder(t, received))
    /\ [][\A s \in Sockets, type \in MessageTypes, name \in EntityNames,
             state \in EntityStates :
             (OnEvent(s, type, name, state)
                 /\ AppListener \in Range(globalMessageListeners))
             => (received' = Append(received, lastEvent')
                    /\ updates' = Append(updates, lastEvent'))]_vars

C11_Witness ==
    /\ Len(applied) = 3
    /\ updates = <<>>
    /\ \E t \in TableNames : Len(Tables[t]) = 2 /\ Len(DataFor(t, applied)) = 3

\* Every pending updater of table t is for a name that is in the table with
\* the state the event carries.
NoOpFor(t) ==
    /\ DataFor(t, updates) # <<>>
    /\ \A i \in 1..Len(updates) :
          tableOf(updates[i].type) = t =>
             \E j \in 1..Len(Tables[t]) :
                /\ Tables[t][j].name = updates[i].data.name
                /\ Tables[t][j].state = updates[i].data.state

\* C14: events whose name is in the table with an equal state leave the
\* table the array it was (no new array, same contents), however many of
\* them are applied.
C14_NoOpKeepsTable ==
    [][\A t \in TableNames :
          (Render /\ NoOpFor(t)) => (Tables'[t] = Tables[t] /\ t \notin fresh')]_vars

C14_Witness ==
    /\ Len(applied) >= 2
    /\ updates = <<>>
    /\ fresh = {}
    /\ applied[Len(applied)].data.name = applied[Len(applied) - 1].data.name
    /\ applied[Len(applied)].data.state = applied[Len(applied) - 1].data.state
    /\ tableOf(applied[Len(applied)].type) = tableOf(applied[Len(applied) - 1].type)

\* C15: each name appears at most once in each table.
C15_NamesUnique ==
    \A t \in TableNames : \A i \in 1..Len(Tables[t]), j \in 1..Len(Tables[t]) :
        Tables[t][i].name = Tables[t][j].name => i = j

C15_Witness ==
    \E t \in TableNames :
        /\ Len(Tables[t]) = 2
        /\ Len(DataFor(t, applied)) = 3
        /\ appApi

\* C16: the names of a table are in the order of their first arrival since
\* the last clearing.
C16_ArrivalOrder ==
    \A t \in TableNames : NamesOf(Tables[t]) = FirstSeen(DataFor(t, applied))

C16_Witness ==
    \E t \in TableNames :
        /\ Len(Tables[t]) = 2
        /\ Len(DataFor(t, applied)) = 3
        /\ Tables[t][1].timestamp = 3
        /\ Tables[t][2].timestamp = 2

\* The data of the last event of d for the name n.
LastFor(d, n) ==
    d[CHOOSE i \in 1..Len(d) :
         d[i].name = n /\ \A j \in (i + 1)..Len(d) : d[j].name # n]

\* C17: the entry of a name is the data of the most recent event applied
\* for that name, timestamp included.
C17_LastValueWins ==
    \A t \in TableNames : \A i \in 1..Len(Tables[t]) :
        Tables[t][i] = LastFor(DataFor(t, applied), Tables[t][i].name)

login_StoresOnFailure(a, success) ==
    [token |-> TRUE, isAuthenticated |-> TRUE,
     result |-> IF success THEN "resolved" ELSE "rejected"]

login(a, success) ==
    IF success
    THEN [token |-> TRUE, isAuthenticated |-> TRUE, result |-> "resolved"]
    ELSE [token |-> a.token, isAuthenticated |-> a.isAuthenticated,
          result |-> "rejected"]

\* LoginView (rendered while !isAuthenticated && isAuthRequired, App.tsx
\* 35-37) calls login and awaits it (LoginView.tsx 19).
Login(success) ==
    /\ ~isLoading
    /\ ~isAuthenticated /\ isAuthRequired
    /\ LET r == login([token |-> token, isAuthenticated |-> isAuthenticated], success) IN
       /\ token' = r.token
       /\ isAuthenticated' = r.isAuthenticated
       /\ loginResult' = r.result
    /\ Forget
    /\ UNCHANGED <<mgrVars, hookMounted, hookApi, isAuthRequired, isLoading, inbox,
                   tornDown, terminal, appVars, probeVars>>

\* The auth provider with logins that succeed and fail, and the connection
\* of the one mounted hook.
NextAuth ==
    \/ \E h \in Hooks : Mount(h)
    \/ \E ok \in BOOLEAN, required \in BOOLEAN : CheckAuth(ok, required)
    \/ \E success \in BOOLEAN : Login(success)
    \/ Logout
    \/ Http401
    \/ \E h \in Hooks, throws \in BOOLEAN : DebounceFire(h, throws)
    \/ \E s \in Sockets, throws \in BOOLEAN : ReconnectFire(s, throws)
    \/ \E s \in Sockets : OnOpen(s)
    \/ \E s \in Sockets : OnClose(s)

SpecAuth == Init /\ [][NextAuth]_vars

\* ------------------------------------------- useApiAvailability.ts 7-77
\* One instance of the hook.  Time is counted on the timers: the clock
\* advances by TickLen, and never past a timer that is due.
TickLen == MIN_CHECK_DURATION \div 2

Min(a, b) == IF a < b THEN a ELSE b
Max(a, b) == IF a > b THEN a ELSE b

FreeChecks == {c \in Checks : checks[c].pc = "idle"}
NewCheck == CHOOSE c \in FreeChecks : \A d \in FreeChecks : c <= d

\* ensureMinCheckDuration without the wait.
ensureMinCheckDuration_NoWait(ref) == 0

\* useApiAvailability.ts 25-31: the delay of the setTimeout awaited, 0 for
\* none.  ref: checkStartTimeRef; (current || Date.now()) makes the elapsed
\* time 0 when current is undefined.
ensureMinCheckDuration(ref) ==
    LET elapsedTime == IF ref # -1 THEN ref ELSE 0 IN
    IF elapsedTime < MIN_CHECK_DURATION THEN MIN_CHECK_DURATION - elapsedTime ELSE 0

\* useApiAvailability.ts 34-38: checkApiAvailability up to the request.
startCheck(kind) ==
    /\ FreeChecks # {}
    /\ isChecking' = TRUE
    /\ checkStartTimeRef' = 0
    /\ checks' = [checks EXCEPT ![NewCheck] =
                     [pc |-> "request", kind |-> kind, age |-> 0, left |-> 0, ok |-> FALSE]]

\* useApiAvailability.ts 40 or 43, then 44-48; for a manual check the rest
\* of checkNow follows (54: setupInterval, 14-23).
finishCheck(c, ok) ==
    /\ proberAvailable' = ok
    /\ isChecking' = FALSE
    /\ checkStartTimeRef' = -1
    /\ checks' = [checks EXCEPT ![c] = NoCheck]
    /\ intervalRef' = IF checks[c].kind = "manual" THEN CHECK_INTERVAL ELSE intervalRef

othersUnchanged ==
    UNCHANGED <<mgrVars, hookMounted, hookApi, authVars, inbox, histVars, tornDown,
                terminal, appVars, loginResult>>

\* The component mounts: the effect (57-62) starts the initial check and
\* sets the interval up.
MountProber ==
    /\ ~proberMounted
    /\ proberMounted' = TRUE
    /\ startCheck("initial")
    /\ intervalRef' = CHECK_INTERVAL
    /\ UNCHANGED proberAvailable
    /\ othersUnchanged

\* checkNow is called (52-53).
CheckNow ==
    /\ proberMounted
    /\ startCheck("manual")
    /\ UNCHANGED <<proberMounted, proberAvailable, intervalRef>>
    /\ othersUnchanged

\* The interval timer fires (20-22) and is due again after CHECK_INTERVAL.
\* With MaxChecks checks in flight the check it starts is not followed.
IntervalFire ==
    /\ intervalRef = 0
    /\ IF FreeChecks # {}
       THEN startCheck("periodic")
       ELSE UNCHANGED <<isChecking, checkStartTimeRef, checks>>
    /\ intervalRef' = CHECK_INTERVAL
    /\ UNCHANGED <<proberMounted, proberAvailable>>
    /\ othersUnchanged

\* The request of check c settles (38), fulfilled (ok) or rejected:
\* ensureMinCheckDuration is awaited (39 or 42).
Answer(c, ok) ==
    /\ checks[c].pc = "request"
    /\ LET delay == ensureMinCheckDuration(checkStartTimeRef) IN
       IF delay > 0
       THEN /\ checks' = [checks EXCEPT ![c] = [@ EXCEPT !.pc = "wait", !.left = delay,
                                                        !.ok = ok]]
            /\ UNCHANGED <<proberAvailable, isChecking, checkStartTimeRef, intervalRef>>
       ELSE finishCheck(c, ok)
    /\ UNCHANGED proberMounted
    /\ othersUnchanged

\* The setTimeout of ensureMinCheckDuration (29) of check c fires.
WaitDone(c) ==
    /\ checks[c].pc = "wait"
    /\ checks[c].left = 0
    /\ finishCheck(c, checks[c].ok)
    /\ UNCHANGED proberMounted
    /\ othersUnchanged

\* Time passes, no timer being due.
Tick ==
    /\ proberMounted
    /\ intervalRef # 0
    /\ \A c \in Checks : checks[c].pc = "wait" => checks[c].left > 0
    /\ intervalRef' = IF intervalRef = -1 THEN -1 ELSE Max(0, intervalRef - TickLen)
    /\ checkStartTimeRef' = IF checkStartTimeRef = -1 THEN -1
                            ELSE Min(MIN_CHECK_DURATION, checkStartTimeRef + TickLen)
    /\ checks' = [c \in Checks |->
                    IF checks[c].pc = "idle" THEN checks[c]
                    ELSE [checks[c] EXCEPT
                             !.age = Min(MIN_CHECK_DURATION, @ + TickLen),
                             !.left = Max(0, @ - TickLen)]]
    /\ UNCHANGED <<proberMounted, proberAvailable, isChecking>>
    /\ othersUnchanged

NextProbe ==
    \/ MountProber
    \/ CheckNow
    \/ IntervalFire
    \/ \E c \in Checks, ok \in BOOLEAN : Answer(c, ok)
    \/ \E c \in Checks : WaitDone(c)
    \/ Tick

SpecProbe == Init /\ [][NextProbe]_vars

\* Timers that are due fire and time passes; nothing makes the backend
\* answer a request.
SpecProbeLive ==
    /\ Init
    /\ [][NextProbe]_vars
    /\ WF_vars(MountProber)
    /\ WF_vars(IntervalFire)
    /\ WF_vars(Tick)
    /\ \A c \in Checks : WF_vars(WaitDone(c))

\* ------------------------------------- claims about errors and counters
\* C23: while the reconnect counter is below the ceiling no hook holds an
\* error: a close, a failed handshake or a failure to create the socket is
\* answered by a retry.
C23_NoErrorBelowCeiling ==
    globalReconnectAttempts < MAX_RECONNECT_ATTEMPTS =>
        \A h \in Hooks : error[h] = NoError

\* C26: activeConnections is never negative and is the number of mounted
\* effects of useWebSocket that registered (ran with availability up and
\* have not been cleaned up).
C26_CounterMatchesEffects ==
    /\ activeConnections >= 0
    /\ activeConnections = Cardinality({h \in Hooks : effectActive[h]})

\* C28: a socket that is open, and in whose place the manager references no
\* other socket, has a heartbeat timer scheduled.
C28_HeartbeatWhileOpen ==
    \A s \in Sockets :
        (sock[s].st = OPEN /\ globalWs \in {0, s}) =>
            (globalPingInterval # 0 /\ globalPingInterval \in intervals)

\* C27: a listener leaves the listener set only through its own disposer.
C27_ListenerStaysUntilDisposed ==
    [][\A l \in Listeners :
          (l \in Range(globalMessageListeners) /\ l \notin Range(globalMessageListeners'))
             => (Dispose(l) \/ \E s \in Sockets, k \in Listeners : OnMessageUnsub(s, k, l))]_vars

\* ------------------------------------------- claims about the auth provider
\* C24: once the mount-time check has finished, a stored credential means
\* isAuthenticated, whether the request for the flag succeeded or failed.
C24_StoredCredentialAuthenticates ==
    (~isLoading /\ token) => isAuthenticated

\* C30: a login that fails leaves the credential, isAuthenticated and the
\* connection manager as they were and rejects; a login that succeeds stores
\* the credential, sets isAuthenticated and resolves; nothing else stores a
\* credential.
C30_FailedLoginChangesNothing ==
    /\ [][Login(FALSE) => (/\ UNCHANGED <<token, isAuthenticated, mgrVars>>
                           /\ loginResult' = "rejected")]_vars
    /\ [][Login(TRUE) => (token' /\ isAuthenticated' /\ loginResult' = "resolved")]_vars
    /\ [][(~token /\ token') => Login(TRUE)]_vars

C30_Witness ==
    /\ loginResult = "rejected"
    /\ ~isAuthenticated
    /\ globalWs # 0
    /\ sock[globalWs].st = OPEN

\* ------------------------------------------------ claims about the prober
InFlight(c) == checks[c].pc # "idle"

\* C21: a check resolves no earlier than MIN_CHECK_DURATION after it
\* started, whatever the moment of the answer and whatever other check shares
\* checkStartTimeRef.
C21_MinimumDuration ==
    [][\A c \in Checks :
          (InFlight(c) /\ checks'[c].pc = "idle") =>
              checks[c].age >= MIN_CHECK_DURATION]_vars

\* A check has resolved while another, started after it and before it
\* resolved, is in flight.
C21_Witness ==
    /\ ~isChecking
    /\ \E c \in Checks : InFlight(c) /\ checks[c].age < MIN_CHECK_DURATION

\* C22: a periodic and a manual check are never in flight together.
C22_NoOverlap ==
    ~ \E c \in Checks, d \in Checks :
         /\ InFlight(c) /\ checks[c].kind = "manual"
         /\ InFlight(d) /\ checks[d].kind = "periodic"

\* C29: isChecking is true while a check is in flight.
C29_CheckingWhileInFlight ==
    (\E c \in Checks : InFlight(c)) => isChecking

\* C25: every probe terminates, also when the backend never answers, and
\* isChecking returns to false.
C25_ProbeTerminates ==
    /\ \A c \in Checks : (checks[c].pc = "request") ~> (checks[c].pc = "idle")
    /\ (proberMounted /\ isChecking) ~> ~isChecking

====
